---- MODULE Spec2Model ----
(***************************************************************************)
(* Student management page (src/app.py): the field validators, the Add,    *)
(* Update and Delete form handlers and the Search & Filter section of      *)
(* StudentManagementUI, over the record collection owned by StudentManager.*)
(*                                                                         *)
(* Text is a sequence of one-character strings, so that upper(), strip()   *)
(* and the regular expressions are computed character by character.        *)
(* services/manager.py and models/student.py are not part of src/; the     *)
(* store operations are modelled from section 4.2 of the specification.    *)
(***************************************************************************)
EXTENDS Integers, Sequences, FiniteSets, TLC

VARIABLES
    students,   \* the manager's collection: a sequence of student records
    last,       \* what the last handler run was given and what it reported
    raw,        \* the raw value handed to a validator (validator runs only)
    out         \* the validator called last and its outcome

vars == <<students, last, raw, out>>

----------------------------------------------------------------------------
(* Bounds of the model.                                                    *)

MaxIds == 2
MaxAgeLen == 3
MaxGradeLen == 4
MaxEmailLen == 7

----------------------------------------------------------------------------
(* Characters and the string methods the page uses.                        *)

LowerLetters ==
    <<"a","b","c","d","e","f","g","h","i","j","k","l","m",
      "n","o","p","q","r","s","t","u","v","w","x","y","z">>

UpperLetters ==
    <<"A","B","C","D","E","F","G","H","I","J","K","L","M",
      "N","O","P","Q","R","S","T","U","V","W","X","Y","Z">>

LowerSet == {LowerLetters[i] : i \in 1..26}
UpperSet == {UpperLetters[i] : i \in 1..26}
Letters == LowerSet \cup UpperSet
Digits == {"0","1","2","3","4","5","6","7","8","9"}
NonZeroDigits == Digits \ {"0"}
Whitespace == {" ", "\t", "\n"}

DigitValue(c) ==
    CASE c = "0" -> 0 [] c = "1" -> 1 [] c = "2" -> 2 [] c = "3" -> 3
      [] c = "4" -> 4 [] c = "5" -> 5 [] c = "6" -> 6 [] c = "7" -> 7
      [] c = "8" -> 8 [] c = "9" -> 9

\* str.upper(), one character
UpperChar(c) ==
    IF c \in LowerSet
    THEN UpperLetters[CHOOSE i \in 1..26 : LowerLetters[i] = c]
    ELSE c

\* str.lower(), one character
LowerChar(c) ==
    IF c \in UpperSet
    THEN LowerLetters[CHOOSE i \in 1..26 : UpperLetters[i] = c]
    ELSE c

Upper(s) == [i \in 1..Len(s) |-> UpperChar(s[i])]
Lower(s) == [i \in 1..Len(s) |-> LowerChar(s[i])]

RECURSIVE LStrip(_)
LStrip(s) ==
    IF s # <<>> /\ Head(s) \in Whitespace THEN LStrip(Tail(s)) ELSE s

RECURSIVE RStrip(_)
RStrip(s) ==
    IF s # <<>> /\ s[Len(s)] \in Whitespace
    THEN RStrip(SubSeq(s, 1, Len(s) - 1))
    ELSE s

\* str.strip()
Strip(s) == RStrip(LStrip(s))

\* every character of s[from..to] is in class (an empty range passes)
AllIn(s, from, to, class) == \A i \in from..to : s[i] \in class

\* The regular expression's "$" after k matched characters: the end of the
\* string, or the position just before a newline that ends the string.
AtDollar(s, k) ==
    \/ k = Len(s)
    \/ k = Len(s) - 1 /\ s[Len(s)] = "\n"

----------------------------------------------------------------------------
(* The validators.                                                         *)

LocalChars == Letters \cup Digits \cup {".", "_", "%", "+", "-"}
DomainChars == Letters \cup Digits \cup {".", "-"}

\* ^[a-zA-Z0-9._%+-]+@[a-zA-Z0-9.-]+\.[a-zA-Z]{2,}$ : i characters of local
\* part, "@", a domain run up to j, ".", letters up to k, "$".
validate_email(email) ==
    \E i \in 1..Len(email) : \E j \in (i + 2)..Len(email) :
        \E k \in (j + 3)..Len(email) :
            /\ AllIn(email, 1, i, LocalChars)
            /\ email[i + 1] = "@"
            /\ AllIn(email, i + 2, j, DomainChars)
            /\ email[j + 1] = "."
            /\ AllIn(email, j + 2, k, Letters)
            /\ AtDollar(email, k)

\* ^[1-9][0-9]?[A-Z]$ against grade.upper(): k is 2 or 3 matched characters.
validate_grade(grade) ==
    LET g == Upper(grade) IN
    \E k \in {2, 3} :
        /\ k <= Len(g)
        /\ g[1] \in NonZeroDigits
        /\ (k = 3 => g[2] \in Digits)
        /\ g[k] \in UpperSet
        /\ AtDollar(g, k)

(* Raw values: [kind, n, s].  kind "int": the integer n; "float": n tenths *)
(* (59 is 5.9); "inf", "nan": those floats; "str": the text s; "none".     *)
IntValue(n) == [kind |-> "int", n |-> n, s |-> <<>>]
FloatValue(tenths) == [kind |-> "float", n |-> tenths, s |-> <<>>]
StrValue(s) == [kind |-> "str", n |-> 0, s |-> s]
NoneValue == [kind |-> "none", n |-> 0, s |-> <<>>]
InfValue == [kind |-> "inf", n |-> 0, s |-> <<>>]
NanValue == [kind |-> "nan", n |-> 0, s |-> <<>>]

RECURSIVE DigitsValue(_)
DigitsValue(s) ==
    IF s = <<>> THEN 0
    ELSE 10 * DigitsValue(SubSeq(s, 1, Len(s) - 1)) + DigitValue(s[Len(s)])

\* truncation toward zero of n tenths
Truncate(n) == IF n >= 0 THEN n \div 10 ELSE -((-n) \div 10)

\* int(value): the integer, or the exception it raises.
IntOf(value) ==
    CASE value.kind = "int" -> [raised |-> "no", v |-> value.n]
      [] value.kind = "float" -> [raised |-> "no", v |-> Truncate(value.n)]
      [] value.kind = "nan" -> [raised |-> "ValueError", v |-> 0]
      [] value.kind = "inf" -> [raised |-> "OverflowError", v |-> 0]
      [] value.kind = "none" -> [raised |-> "TypeError", v |-> 0]
      [] value.kind = "str" ->
            LET t == Strip(value.s)
                signed == t # <<>> /\ Head(t) \in {"+", "-"}
                d == IF signed THEN Tail(t) ELSE t
            IN  IF d # <<>> /\ AllIn(d, 1, Len(d), Digits)
                THEN [raised |-> "no",
                      v |-> IF signed /\ Head(t) = "-"
                            THEN -DigitsValue(d) ELSE DigitsValue(d)]
                ELSE [raised |-> "ValueError", v |-> 0]

MinAge == 5
MaxAge == 100

\* "True", "False", or the name of the exception that leaves the function:
\* only ValueError is caught.
validate_age(age) ==
    LET c == IntOf(age) IN
    CASE c.raised = "no" ->
            IF MinAge <= c.v /\ c.v <= MaxAge THEN "True" ELSE "False"
      [] c.raised = "ValueError" -> "False"
      [] OTHER -> c.raised

----------------------------------------------------------------------------
(* StudentManager: the store of section 4.2.  A collection is a sequence   *)
(* of records [student_id, name, age, grade, email, performance] in        *)
(* insertion order.                                                        *)

Ids == 1..MaxIds

Performances == {"Excellent", "Good", "Average", "Needs Improvement"}

IdsOf(coll) == {coll[i].student_id : i \in 1..Len(coll)}

\* The strategy is free and the caller must re-check at insert: any
\* identifier may come back, so the insert-time check is what decides.
generate_student_id(coll) == Ids

get_all_students(coll) == coll

get_student(coll, student_id) ==
    IF student_id \in IdsOf(coll)
    THEN [found |-> TRUE,
          student |-> coll[CHOOSE i \in 1..Len(coll) :
                                coll[i].student_id = student_id]]
    ELSE [found |-> FALSE]

add_student(coll, student) ==
    IF student.student_id \in IdsOf(coll)
    THEN [ok |-> FALSE, coll |-> coll]
    ELSE [ok |-> TRUE, coll |-> Append(coll, student)]

\* fields: the keyword arguments, a record; every supplied field is
\* overwritten in place, the rest and student_id are kept.
update_student(coll, student_id, fields) ==
    IF student_id \notin IdsOf(coll)
    THEN [ok |-> FALSE, coll |-> coll]
    ELSE [ok |-> TRUE,
          coll |-> [i \in 1..Len(coll) |->
                      IF coll[i].student_id = student_id
                      THEN [f \in DOMAIN coll[i] |->
                              IF f \in DOMAIN fields THEN fields[f]
                              ELSE coll[i][f]]
                      ELSE coll[i]]]

delete_student(coll, student_id) ==
    IF student_id \notin IdsOf(coll)
    THEN [ok |-> FALSE, coll |-> coll]
    ELSE [ok |-> TRUE,
          coll |-> SelectSeq(coll, LAMBDA r : r.student_id # student_id)]

\* q occurs in s
Contains(s, q) ==
    \E i \in 1..(Len(s) - Len(q) + 1) : SubSeq(s, i, i + Len(q) - 1) = q

MatchesQuery(r, query) ==
    \/ Contains(Lower(r.name), Lower(query))
    \/ Contains(Lower(r.email), Lower(query))

search_students(coll, query) ==
    SelectSeq(coll, LAMBDA r : MatchesQuery(r, query))

\* An optional argument: None, or Some(v).
None == [some |-> FALSE]
Some(v) == [some |-> TRUE, v |-> v]

Satisfies(r, grade, min_age, max_age, performance) ==
    /\ grade.some => Upper(r.grade) = Upper(grade.v)
    /\ min_age.some => r.age >= min_age.v
    /\ max_age.some => r.age <= max_age.v
    /\ performance.some => r.performance = performance.v

filter_students(coll, grade, min_age, max_age, performance) ==
    SelectSeq(coll, LAMBDA r : Satisfies(r, grade, min_age, max_age, performance))

----------------------------------------------------------------------------
(* The form handlers of StudentManagementUI, each as the outcome it        *)
(* computes from the collection and the submitted values:                  *)
(* [coll, errors, result].                                                 *)

NameError == "Name is required"
AgeError == "Age must be between 5 and 100"
EmailError == "Valid email is required"
GradeError == "Grade must be in format like '10A', '11B'"

\* The four checks, one after the other, each appending its message.  The
\* age is the number input's integer, for which validate_age never raises.
FormErrors(name, age, email, grade) ==
    LET e0 == <<>>
        e1 == IF Strip(name) = <<>> THEN Append(e0, NameError) ELSE e0
        e2 == IF validate_age(age) = "False" THEN Append(e1, AgeError) ELSE e1
        e3 == IF ~validate_email(email) THEN Append(e2, EmailError) ELSE e2
        e4 == IF ~validate_grade(grade) THEN Append(e3, GradeError) ELSE e3
    IN  e4

NewStudent(student_id, name, age, grade, email, performance) ==
    [student_id |-> student_id,
     name |-> Strip(name),
     age |-> IntOf(age).v,
     grade |-> Upper(grade),
     email |-> Strip(email),
     performance |-> performance]

UpdateData(new_name, new_age, new_grade, new_email, new_performance) ==
    [name |-> Strip(new_name),
     age |-> IntOf(new_age).v,
     grade |-> Upper(new_grade),
     email |-> Strip(new_email),
     performance |-> new_performance]

\* AddOutcome with the insert not under the else: it runs whatever the
\* checks said.
AddOutcomeNoElse(coll, student_id, name, age, email, grade, performance) ==
    LET errors == FormErrors(name, age, email, grade)
        new_student ==
            NewStudent(student_id, name, age, grade, email, performance)
        r == add_student(coll, new_student)
    IN  [coll |-> r.coll, errors |-> errors,
         result |-> IF errors # <<>> THEN "invalid"
                    ELSE IF r.ok THEN "added" ELSE "add_failed"]

\* AddOutcome with add_student's return value dropped: success is reported
\* either way.
AddOutcomeIgnoresReturn(coll, student_id, name, age, email, grade, performance) ==
    LET errors == FormErrors(name, age, email, grade) IN
    IF errors # <<>>
    THEN [coll |-> coll, errors |-> errors, result |-> "invalid"]
    ELSE LET new_student ==
                 NewStudent(student_id, name, age, grade, email, performance)
             r == add_student(coll, new_student)
         IN  [coll |-> r.coll, errors |-> errors, result |-> "added"]

AddOutcome(coll, student_id, name, age, email, grade, performance) ==
    LET errors == FormErrors(name, age, email, grade) IN
    IF errors # <<>>
    THEN [coll |-> coll, errors |-> errors, result |-> "invalid"]
    ELSE LET new_student ==
                 NewStudent(student_id, name, age, grade, email, performance)
             r == add_student(coll, new_student)
         IN  [coll |-> r.coll, errors |-> errors,
              result |-> IF r.ok THEN "added" ELSE "add_failed"]

\* UpdateOutcome keyed on the first student of the list instead of the
\* selected one.
UpdateOutcomeFirstStudent(coll, selected_student, new_name, new_age, new_email, new_grade, new_performance) ==
    LET errors == FormErrors(new_name, new_age, new_email, new_grade) IN
    IF errors # <<>>
    THEN [coll |-> coll, errors |-> errors, result |-> "invalid"]
    ELSE LET update_data ==
                 UpdateData(new_name, new_age, new_grade, new_email,
                            new_performance)
             r == update_student(coll, coll[1].student_id, update_data)
         IN  [coll |-> r.coll, errors |-> errors,
              result |-> IF r.ok THEN "updated" ELSE "update_failed"]

UpdateOutcome(coll, selected_student, new_name, new_age, new_email, new_grade, new_performance) ==
    LET errors == FormErrors(new_name, new_age, new_email, new_grade) IN
    IF errors # <<>>
    THEN [coll |-> coll, errors |-> errors, result |-> "invalid"]
    ELSE LET update_data ==
                 UpdateData(new_name, new_age, new_grade, new_email,
                            new_performance)
             r == update_student(coll, selected_student.student_id, update_data)
         IN  [coll |-> r.coll, errors |-> errors,
              result |-> IF r.ok THEN "updated" ELSE "update_failed"]

\* DeleteOutcome keyed on the first student of the list instead of the
\* selected one.
DeleteOutcomeFirstStudent(coll, student_id) ==
    LET r == delete_student(coll, coll[1].student_id) IN
    [coll |-> r.coll, errors |-> <<>>,
     result |-> IF r.ok THEN "deleted" ELSE "delete_failed"]

DeleteOutcome(coll, student_id) ==
    LET r == delete_student(coll, student_id) IN
    [coll |-> r.coll, errors |-> <<>>,
     result |-> IF r.ok THEN "deleted" ELSE "delete_failed"]

\* The students the Search & Filter section returns: the value assigned to
\* filtered_students last, which is filter_students' result.
SearchFilter(coll, search_query, performance_filter, grade_filter, min_age, max_age) ==
    LET all == get_all_students(coll)
        searched == IF search_query # <<>>
                    THEN search_students(coll, search_query) ELSE all
        performance_val == IF performance_filter # "All"
                           THEN Some(performance_filter) ELSE None
        grade_val == IF Strip(grade_filter) # <<>>
                     THEN Some(Upper(grade_filter)) ELSE None
        filtered == filter_students(coll, grade_val, Some(min_age),
                                    Some(max_age), performance_val)
    IN  filtered

----------------------------------------------------------------------------
(* The page: each run of a handler is one step.  last records what the     *)
(* handler was given (form, student_id, query), the collection it started  *)
(* from (before) and what it reported (errors, result, view).              *)

Form(name, age, email, grade, performance) ==
    [name |-> name, age |-> age, email |-> email, grade |-> grade,
     performance |-> performance]

Query(search_query, performance_filter, grade_filter, min_age, max_age) ==
    [search_query |-> search_query, performance_filter |-> performance_filter,
     grade_filter |-> grade_filter, min_age |-> min_age, max_age |-> max_age]

NoForm == Form(<<>>, 0, <<>>, <<>>, "none")
NoQuery == Query(<<>>, "none", <<>>, 0, 0)
NoOut == [fn |-> "none", result |-> "none"]
NoLast ==
    [op |-> "none", form |-> NoForm, student_id |-> 0, query |-> NoQuery,
     before |-> <<>>, errors |-> <<>>, result |-> "none", view |-> <<>>]

\* Submitted values.  The text fields are whatever was typed; the age comes
\* from the number input and is an integer.
NameBlank == <<" ">>
NameAl == <<"A", "l", " ">>
NameBo == <<" ", "b", "o">>
EmailNoTld == <<"a", "@", "b">>
EmailAl == <<"a", "l", "@", "x", ".", "i", "o">>
EmailBo == <<"b", "@", "y", ".", "i", "o", "\n">>
GradeZero == <<"0", "A">>
Grade1a == <<"1", "a">>
Grade10B == <<"1", "0", "B">>
Grade1ANewline == <<"1", "A", "\n">>

Submissions ==
    { Form(NameAl, 10, EmailAl, Grade1a, "Good"),
      Form(NameBo, 20, EmailBo, Grade10B, "Excellent"),
      Form(NameAl, 10, EmailAl, Grade1ANewline, "Needs Improvement"),
      Form(NameBlank, 10, EmailAl, Grade1a, "Good"),
      Form(NameAl, 4, EmailAl, Grade1a, "Average"),
      Form(NameBo, 20, EmailNoTld, Grade10B, "Excellent"),
      Form(NameBo, 20, EmailBo, GradeZero, "Excellent"),
      Form(NameBlank, 20, EmailBo, GradeZero, "Good"),
      Form(NameBlank, 101, EmailNoTld, GradeZero, "Average") }

Queries ==
    { Query(q, p, g, a[1], a[2]) :
        q \in {<<>>, <<"A", "L">>, <<"y">>},
        p \in {"All", "Good"},
        g \in {<<>>, Grade1a},
        a \in {<<5, 100>>, <<15, 100>>, <<5, 15>>} }

Init ==
    /\ students = <<>>
    /\ last = NoLast
    /\ raw = NoneValue
    /\ out = NoOut

LastOf(op, form, student_id, query, outcome, view) ==
    [op |-> op, form |-> form, student_id |-> student_id, query |-> query,
     before |-> students, errors |-> outcome.errors,
     result |-> outcome.result, view |-> view]

\* "Add Student" submitted.  The identifier is generated only once the
\* fields have passed.
ShowAddStudentForm ==
    \E f \in Submissions : \E sid \in generate_student_id(students) :
        LET outcome == AddOutcome(students, sid, f.name, IntValue(f.age),
                                  f.email, f.grade, f.performance)
        IN  /\ students' = outcome.coll
            /\ last' = LastOf("add", f,
                              IF outcome.result = "invalid" THEN 0 ELSE sid,
                              NoQuery, outcome, <<>>)
            /\ UNCHANGED <<raw, out>>

\* "Update Student" submitted for the student picked in the select box.
ShowUpdateStudentForm ==
    /\ get_all_students(students) # <<>>
    /\ \E i \in 1..Len(students) : \E f \in Submissions :
        LET selected_student == get_all_students(students)[i]
            outcome == UpdateOutcome(students, selected_student, f.name,
                                     IntValue(f.age), f.email, f.grade,
                                     f.performance)
        IN  /\ students' = outcome.coll
            /\ last' = LastOf("update", f, selected_student.student_id,
                              NoQuery, outcome, <<>>)
            /\ UNCHANGED <<raw, out>>

\* "Confirm Delete" pressed for the student picked in the select box.
ShowDeleteStudentForm ==
    /\ get_all_students(students) # <<>>
    /\ \E i \in 1..Len(students) :
        LET student_id == get_all_students(students)[i].student_id
            outcome == DeleteOutcome(students, student_id)
        IN  /\ students' = outcome.coll
            /\ last' = LastOf("delete", NoForm, student_id, NoQuery,
                              outcome, <<>>)
            /\ UNCHANGED <<raw, out>>

\* The Search & Filter section rendered with the given inputs.
ShowSearchFilterSection ==
    \E q \in Queries :
        LET view == SearchFilter(students, q.search_query,
                                 q.performance_filter, q.grade_filter,
                                 q.min_age, q.max_age)
        IN  /\ last' = LastOf("search", NoForm, 0, q,
                              [errors |-> <<>>, result |-> "shown"], view)
            /\ UNCHANGED <<students, raw, out>>

Next ==
    \/ ShowAddStudentForm
    \/ ShowUpdateStudentForm
    \/ ShowDeleteStudentForm
    \/ ShowSearchFilterSection

Spec == Init /\ [][Next]_vars

----------------------------------------------------------------------------
(* The rules of the data model, as the specification words them: a        *)
(* pattern covers the whole value, with nothing before or after it.        *)

NameRule(name) == Strip(name) # <<>>

AgeRule(age) == MinAge <= age /\ age <= MaxAge

\* one digit 1-9, optionally one digit 0-9, one letter A-Z, nothing else
GradeRule(g) ==
    /\ Len(g) \in {2, 3}
    /\ g[1] \in NonZeroDigits
    /\ (Len(g) = 3 => g[2] \in Digits)
    /\ g[Len(g)] \in UpperSet

\* a run of local characters, "@", a run of domain characters, ".", two or
\* more letters, nothing else
EmailRule(e) ==
    \E i \in 1..Len(e) : \E j \in (i + 2)..(Len(e) - 3) :
        /\ AllIn(e, 1, i, LocalChars)
        /\ e[i + 1] = "@"
        /\ AllIn(e, i + 2, j, DomainChars)
        /\ e[j + 1] = "."
        /\ AllIn(e, j + 2, Len(e), Letters)

\* the four checks of a submission, as the handler's validators decide them
FieldChecksPass(f) ==
    /\ Strip(f.name) # <<>>
    /\ validate_age(IntValue(f.age)) = "True"
    /\ validate_email(f.email)
    /\ validate_grade(f.grade)

Submitted == last.op \in {"add", "update"}

----------------------------------------------------------------------------
(* Properties of the page.                                                 *)

\* what the claim's combined query selects from a collection
SearchAndFilter(coll, q) ==
    SelectSeq(coll, LAMBDA r :
        /\ MatchesQuery(r, q.search_query)
        /\ (Strip(q.grade_filter) # <<>> => Upper(r.grade) = Upper(q.grade_filter))
        /\ q.min_age <= r.age /\ r.age <= q.max_age
        /\ (q.performance_filter # "All" => r.performance = q.performance_filter))

\* C1: with a non-empty search query, the Search & Filter section returns
\* exactly the records that match the query (case-insensitive substring of
\* name or email) and satisfy every supplied filter criterion: the filter
\* works on the search result, not on the whole collection.
C1_FilterOverSearch ==
    (last.op = "search" /\ last.query.search_query # <<>>) =>
        last.view = SearchAndFilter(students, last.query)

ValidRecord(r) ==
    /\ r.name # <<>> /\ Strip(r.name) = r.name
    /\ r.age \in Int /\ AgeRule(r.age)
    /\ Upper(r.grade) = r.grade /\ GradeRule(r.grade)
    /\ EmailRule(r.email)
    /\ r.performance \in Performances

\* C2: after any sequence of Add, Update and Delete submissions every
\* record has a non-empty trimmed name, an integer age in 5..100, an
\* upper-cased grade matching the grade pattern, an email matching the email
\* pattern and one of the four performances; and the store's add or update
\* is called only when all four field checks passed.
C2_RecordsValid ==
    /\ \A i \in 1..Len(students) : ValidRecord(students[i])
    /\ (Submitted /\ last.result # "invalid") => FieldChecksPass(last.form)

\* C3: no two records of the collection share a student_id; an Add whose
\* generated id is already in the collection is reported as a failure and
\* inserts nothing.
C3_UniqueIds ==
    /\ \A i, j \in 1..Len(students) :
          students[i].student_id = students[j].student_id => i = j
    /\ (/\ last.op = "add"
        /\ FieldChecksPass(last.form)
        /\ last.student_id \in IdsOf(last.before))
          => (last.result = "add_failed" /\ students = last.before)

C3_Witness ==
    /\ last.op = "add"
    /\ FieldChecksPass(last.form)
    /\ last.student_id \in IdsOf(last.before)
    /\ Len(students) = 2

\* the record a submission writes when all its fields are applied
Applied(f, student_id) ==
    [student_id |-> student_id, name |-> Strip(f.name), age |-> f.age,
     grade |-> Upper(f.grade), email |-> Strip(f.email),
     performance |-> f.performance]

\* C4: an Add or Update submission with a field that fails validation, an
\* Add whose add_student returns false and an Update whose update_student
\* returns false leave the collection as it was (same records, same values,
\* same order); a submission applies all its fields or none.
C4_NoPartialMutation ==
    Submitted =>
        /\ (~FieldChecksPass(last.form)
              \/ last.result \in {"add_failed", "update_failed"})
              => students = last.before
        /\ \/ students = last.before
           \/ /\ last.op = "add"
              /\ students = Append(last.before, Applied(last.form, last.student_id))
           \/ /\ last.op = "update"
              /\ Applied(last.form, last.student_id)
                    \in {students[i] : i \in 1..Len(students)}

C4_Witness ==
    /\ last.op = "add"
    /\ ~FieldChecksPass(last.form)
    /\ last.errors # <<>>
    /\ Len(students) >= 1

\* the messages of the fields of a submission that fail their rule
FailingFields(f) ==
    (IF NameRule(f.name) THEN {} ELSE {NameError})
        \cup (IF AgeRule(f.age) THEN {} ELSE {AgeError})
        \cup (IF EmailRule(f.email) THEN {} ELSE {EmailError})
        \cup (IF GradeRule(Upper(f.grade)) THEN {} ELSE {GradeError})

\* C8: the error messages an Add or Update submission reports are exactly
\* those of the fields (name, age, email, grade) that fail their rule; no
\* failure hides another field's message, and the list is empty iff all
\* four fields are valid.
C8_ErrorsAreFailingFields ==
    Submitted =>
        {last.errors[i] : i \in 1..Len(last.errors)} = FailingFields(last.form)

\* C9: a successful Update of student s rewrites the five fields name, age,
\* grade, email, performance of the record whose student_id is s's; that
\* record's student_id, the ids of the collection and every field of every
\* other record are unchanged.
C9_UpdateFrame ==
    (last.op = "update" /\ last.result = "updated") =>
        /\ Len(students) = Len(last.before)
        /\ \A i \in 1..Len(students) :
              IF last.before[i].student_id = last.student_id
              THEN students[i] = Applied(last.form, last.student_id)
              ELSE students[i] = last.before[i]

C9_Witness ==
    /\ last.op = "update" /\ last.result = "updated"
    /\ Len(students) = 2
    /\ students[2].student_id = last.student_id
    /\ students[2].name # last.before[2].name
    /\ students[2].age # last.before[2].age
    /\ students[2].performance # last.before[2].performance

\* C10: after a confirmed Delete of id that reports success, get_student(id)
\* reports not-found, id is not among get_all_students(), and every other
\* record is still present.
C10_DeleteThenCheck ==
    (last.op = "delete" /\ last.result = "deleted") =>
        /\ ~get_student(students, last.student_id).found
        /\ \A i \in 1..Len(get_all_students(students)) :
              get_all_students(students)[i].student_id # last.student_id
        /\ \A i \in 1..Len(last.before) :
              last.before[i].student_id # last.student_id =>
                  \E j \in 1..Len(students) : students[j] = last.before[i]

C10_Witness ==
    /\ last.op = "delete" /\ last.result = "deleted"
    /\ Len(last.before) = 2
    /\ last.before[2].student_id = last.student_id
    /\ Len(students) = 1

----------------------------------------------------------------------------
(* Validator runs: a raw value is drawn, then a validator is applied.      *)

Strings(alphabet, n) == UNION {[1..k -> alphabet] : k \in 0..n}

AgeAlphabet == {"0", "1", "5", " ", "-", "x"}
GradeAlphabet == {"0", "1", "A", "a", "\n"}
EmailAlphabet == {"a", "1", "%", "@", ".", "\n"}

AgeNumbers == {-1, 4, 5, 6, 99, 100, 101}
AgeTenths == {-9, 49, 50, 59, 1000, 1009, 1010}

RawValues ==
    {IntValue(n) : n \in AgeNumbers}
        \cup {FloatValue(t) : t \in AgeTenths}
        \cup {NoneValue, InfValue, NanValue}
        \cup {StrValue(s) : s \in Strings(AgeAlphabet, MaxAgeLen)}
        \cup {StrValue(s) : s \in Strings(GradeAlphabet, MaxGradeLen)}
        \cup {StrValue(s) : s \in Strings(EmailAlphabet, MaxEmailLen)}


Bool(b) == IF b THEN "True" ELSE "False"

InitValidate ==
    /\ raw \in RawValues
    /\ out = NoOut
    /\ students = <<>>
    /\ last = NoLast

ValidateAge ==
    /\ out = NoOut
    /\ out' = [fn |-> "validate_age", result |-> validate_age(raw)]
    /\ UNCHANGED <<students, last, raw>>

ValidateGrade ==
    /\ out = NoOut
    /\ raw.kind = "str"
    /\ out' = [fn |-> "validate_grade", result |-> Bool(validate_grade(raw.s))]
    /\ UNCHANGED <<students, last, raw>>

ValidateEmail ==
    /\ out = NoOut
    /\ raw.kind = "str"
    /\ out' = [fn |-> "validate_email", result |-> Bool(validate_email(raw.s))]
    /\ UNCHANGED <<students, last, raw>>

NextValidate == ValidateAge \/ ValidateGrade \/ ValidateEmail

SpecValidate == InitValidate /\ [][NextValidate]_vars

\* C5: validate_age(a) returns true iff a is integer-coercible and
\* 5 <= int(a) <= 100; for a value whose coercion fails it returns false
\* rather than raising.
C5_ValidateAge ==
    out.fn = "validate_age" =>
        /\ out.result \in {"True", "False"}
        /\ out.result = "True" <=>
              (IntOf(raw).raised = "no" /\ AgeRule(IntOf(raw).v))

\* C6: validate_grade(g) returns true iff the upper-cased g is one digit
\* 1-9, optionally one more digit 0-9, then one letter A-Z and nothing else.
C6_ValidateGrade ==
    out.fn = "validate_grade" =>
        (out.result = "True" <=> GradeRule(Upper(raw.s)))

\* C7: validate_email(e) returns true iff e is a non-empty run of
\* [A-Za-z0-9._%+-], one "@", a non-empty run of [A-Za-z0-9.-], a ".", and a
\* final segment of at least two letters, with nothing before or after.
C7_ValidateEmail ==
    out.fn = "validate_email" =>
        (out.result = "True" <=> EmailRule(raw.s))

====
